---- MODULE Spec2Model ----
(***************************************************************************)
(* Reconciliation modules of the cdot65.scm collection (address,           *)
(* address_group, application, application_group, service, service_group,  *)
(* tag): one run of a module is AnsibleModule construction, client         *)
(* creation, probe (fetch), decision, at most one mutating call, result.   *)
(* A behaviour follows one playbook task (one module, one parameter set)   *)
(* that is run again and again, in check mode or not, against the backend. *)
(***************************************************************************)
EXTENDS Integers, Sequences, FiniteSets, TLC

VARIABLES kind, params, store, nextId, run, prev, build

vars == <<kind, params, store, nextId, run, prev, build>>

(***************************************************************************)
(* Python values.  Every simple value is a tagged sequence of strings, so  *)
(* that None, a string, a list, an int and a UUID are pairwise unequal.    *)
(***************************************************************************)
None == <<"none">>
Str(s) == <<"str", s>>
IntV(s) == <<"int", s>>
Uuid(n) == <<"uuid", ToString(n)>>
List(xs) == <<"list">> \o xs
Dict1(k, v) == <<"dict", k, v>>
Elems(v) == {v[i] : i \in 2..Len(v)}
EmptyFn == [k \in {} |-> None]

\* sorted(a) == sorted(b): the two lists hold the same elements the same
\* number of times
SortedKey(v) == [e \in Elems(v) |-> Cardinality({i \in 2..Len(v) : v[i] = e})]

\* str(uuid)
StrOfId(n) == Str(ToString(n))

Kinds == {"address", "address_group", "application", "application_group",
          "service", "service_group", "tag"}

Runs == {"r1"}

(***************************************************************************)
(* The protocol parameter of a service: a dict of a tcp and a udp block,   *)
(* each a port and an optional override.  0 stands for an omitted number.  *)
(***************************************************************************)
TcpTimeout == 3600
TcpHalfclose == 120
TcpTimewait == 15
UdpTimeout == 30

NoOvr == [given |-> FALSE, timeout |-> 0, halfclose_timeout |-> 0, timewait_timeout |-> 0]
NoBlock == [given |-> FALSE, port |-> None, override |-> NoOvr]
Block(port, ovr) == [given |-> TRUE, port |-> port, override |-> ovr]
NoProtocol == [given |-> FALSE, tcp |-> NoBlock, udp |-> NoBlock]
Protocol(tcp, udp) == [given |-> TRUE, tcp |-> tcp, udp |-> udp]

\* the suboption defaults AnsibleModule fills into an override the caller gave
TcpOvr(t, h, w) ==
    [given |-> TRUE,
     timeout |-> IF t = 0 THEN TcpTimeout ELSE t,
     halfclose_timeout |-> IF h = 0 THEN TcpHalfclose ELSE h,
     timewait_timeout |-> IF w = 0 THEN TcpTimewait ELSE w]
UdpOvr(t) ==
    [given |-> TRUE, timeout |-> IF t = 0 THEN UdpTimeout ELSE t,
     halfclose_timeout |-> 0, timewait_timeout |-> 0]

(***************************************************************************)
(* module.params: one value per key of the module's argument_spec, None    *)
(* for a key the caller left out.  The bounded value sets of the model.    *)
(***************************************************************************)
Provider == Dict1("client_id", "secret")
NameV == {Str("web1")}
StateV == {Str("present"), Str("absent")}
FolderV == {None, Str("Texas")}
SnippetV == {None, Str("Snip")}
DeviceV == {None, Str("Dev")}
DescV == {None, Str("d1"), Str("d2")}
TagListV == {None, List(<<"t1", "t2">>), List(<<"t2", "t1">>)}
MemberV == {None, List(<<"a", "b">>), List(<<"b", "a">>), List(<<"a">>)}

AddressParams ==
    {[provider |-> Provider, state |-> st, name |-> n, description |-> d,
      tag |-> None, ip_netmask |-> nm, ip_range |-> None, ip_wildcard |-> None,
      fqdn |-> fq, folder |-> fo, snippet |-> sn, device |-> dv] :
        st \in StateV, n \in NameV, d \in DescV,
        nm \in {None, Str("10.0.0.0/24")}, fq \in {None, Str("a.example.com")},
        fo \in FolderV, sn \in SnippetV, dv \in DeviceV}

AddressGroupParams ==
    {[provider |-> Provider, state |-> st, name |-> n, description |-> d,
      tag |-> t, dynamic |-> dy, static |-> sc,
      folder |-> fo, snippet |-> sn, device |-> dv] :
        st \in StateV, n \in NameV, d \in {None, Str("d1")}, t \in TagListV,
        dy \in {None, Dict1("filter", "'t1' and 't2'")},
        sc \in {None, List(<<"a", "b">>), List(<<"b", "a">>)},
        fo \in FolderV, sn \in SnippetV, dv \in {None}}

\* risk is declared type='str' in the argument_spec: the caller's 3 arrives as "3"
ApplicationParams ==
    {[provider |-> Provider, state |-> st, name |-> n, category |-> c,
      subcategory |-> Str("database"), technology |-> Str("client-server"),
      risk |-> r, description |-> d, default_timeout |-> None,
      folder |-> fo, snippet |-> sn, tag |-> None, ports |-> po,
      transfers_files |-> None, has_known_vulnerabilities |-> None] :
        st \in StateV, n \in NameV, c \in {None, Str("business-systems")},
        r \in {None, Str("3"), Str("4")}, d \in {None, Str("d1")},
        po \in {None, List(<<"tcp/1521">>)},
        fo \in FolderV, sn \in SnippetV}

ApplicationGroupParams ==
    {[provider |-> Provider, state |-> st, name |-> n, members |-> m,
      folder |-> fo, snippet |-> sn, device |-> dv] :
        st \in StateV, n \in NameV, m \in MemberV,
        fo \in FolderV, sn \in SnippetV, dv \in DeviceV}

ProtocolV ==
    {NoProtocol,
     Protocol(NoBlock, NoBlock),
     Protocol(Block(Str("80"), NoOvr), NoBlock),
     Protocol(Block(Str("443"), NoOvr), NoBlock),
     Protocol(Block(Str("80"), TcpOvr(30, 0, 0)), NoBlock),
     Protocol(Block(Str(""), NoOvr), NoBlock),
     Protocol(NoBlock, Block(Str("53"), NoOvr)),
     Protocol(NoBlock, Block(Str("53"), UdpOvr(0))),
     Protocol(Block(Str("80"), NoOvr), Block(Str("53"), NoOvr)),
     Protocol(Block(Str(""), NoOvr), Block(Str("53"), NoOvr))}

ServiceParams ==
    {[provider |-> Provider, state |-> st, name |-> n, protocol |-> pr,
      description |-> d, tag |-> t,
      folder |-> fo, snippet |-> sn, device |-> dv] :
        st \in StateV, n \in NameV, pr \in ProtocolV,
        d \in {None, Str("d1")}, t \in {None, List(<<"t1">>)},
        fo \in FolderV, sn \in SnippetV, dv \in {None}}

ServiceGroupParams ==
    {[provider |-> Provider, state |-> st, name |-> n, members |-> m, tag |-> t,
      folder |-> fo, snippet |-> sn, device |-> None] :
        st \in StateV, n \in NameV, m \in MemberV, t \in {None, List(<<"t1">>)},
        fo \in FolderV, sn \in SnippetV}

TagParams ==
    {[provider |-> Provider, state |-> st, name |-> n, color |-> c, comments |-> cm,
      folder |-> fo, snippet |-> sn, device |-> None] :
        st \in StateV, n \in NameV, c \in {None, Str("Blue"), Str("Red")},
        cm \in {None, Str("c1")}, fo \in FolderV, sn \in SnippetV}

ParamsOf(k) ==
    CASE k = "address" -> AddressParams
      [] k = "address_group" -> AddressGroupParams
      [] k = "application" -> ApplicationParams
      [] k = "application_group" -> ApplicationGroupParams
      [] k = "service" -> ServiceParams
      [] k = "service_group" -> ServiceGroupParams
      [] k = "tag" -> TagParams

\* the resource kinds ScmSpec defines an argument_spec for
HasSpec(k) == k \in {"address", "address_group", "application", "application_group", "service"}

\* the mutually exclusive resource-defining fields of a kind
ExclusiveFields(k) ==
    CASE k = "address" -> {"ip_netmask", "ip_range", "ip_wildcard", "fqdn"}
      [] k = "address_group" -> {"static", "dynamic"}
      [] OTHER -> {}

ContainerFields == {"folder", "snippet", "device"}

(***************************************************************************)
(* build_<kind>_data: the parameters without provider and state and        *)
(* without the keys whose value is None; a service's protocol is rebuilt.  *)
(***************************************************************************)
Get(d, k) == IF k \in DOMAIN d THEN d[k] ELSE None
GetOr(d, k, dflt) == IF k \in DOMAIN d THEN d[k] ELSE dflt
Truthy(v) == v # None /\ v # Str("") /\ v # List(<<>>)

\* variant: the lifecycle intent is not filtered out of the data
BuildPlainDataKeepsState(p, skip) ==
    [k \in {f \in DOMAIN p \ (skip \ {"state"}) : p[f] # None} |-> p[k]]

BuildPlainData(p, skip) ==
    [k \in {f \in DOMAIN p \ skip : p[f] # None} |-> p[k]]

\* override.get(key, default)
OvrGet(v, dflt) == IF v = 0 THEN dflt ELSE v

\* variant: the override of a tcp block is not carried into the data
BuildTcpDropsOverride(tcp) == [tcp EXCEPT !.override = NoOvr]

BuildTcp(tcp) ==
    IF tcp.override.given
    THEN [tcp EXCEPT !.override =
             [given |-> TRUE,
              timeout |-> OvrGet(tcp.override.timeout, TcpTimeout),
              halfclose_timeout |-> OvrGet(tcp.override.halfclose_timeout, TcpHalfclose),
              timewait_timeout |-> OvrGet(tcp.override.timewait_timeout, TcpTimewait)]]
    ELSE tcp

BuildUdp(udp) ==
    IF udp.override.given
    THEN [udp EXCEPT !.override =
             [given |-> TRUE, timeout |-> OvrGet(udp.override.timeout, UdpTimeout),
              halfclose_timeout |-> 0, timewait_timeout |-> 0]]
    ELSE udp

\* variant: every block that has a port is carried into the data
BuildProtocolEveryBlock(pr) ==
    [tcp |-> IF pr.tcp.given /\ Truthy(pr.tcp.port) THEN BuildTcp(pr.tcp) ELSE NoBlock,
     udp |-> IF pr.udp.given /\ Truthy(pr.udp.port) THEN BuildUdp(pr.udp) ELSE NoBlock]

\* protocol_data of build_service_data: tcp wins when both blocks are given
BuildProtocol(pr) ==
    IF pr.tcp.given /\ Truthy(pr.tcp.port)
    THEN [tcp |-> BuildTcp(pr.tcp), udp |-> NoBlock]
    ELSE IF pr.udp.given /\ Truthy(pr.udp.port)
    THEN [tcp |-> NoBlock, udp |-> BuildUdp(pr.udp)]
    ELSE [tcp |-> NoBlock, udp |-> NoBlock]

BuildServiceData(p) ==
    LET plain == BuildPlainData(p, {"provider", "state", "protocol"})
        pd == BuildProtocol(p.protocol)
    IN  IF p.protocol.given /\ (pd.tcp.given \/ pd.udp.given)
        THEN [k \in DOMAIN plain \cup {"protocol"} |->
                 IF k = "protocol" THEN pd ELSE plain[k]]
        ELSE plain

BuildData(k, p) ==
    IF k = "service" THEN BuildServiceData(p)
    ELSE BuildPlainData(p, {"provider", "state"})

(***************************************************************************)
(* Remote objects and the backend collection of the module's resource type *)
(***************************************************************************)
NoObj == [id |-> 0, fields |-> EmptyFn]
Obj(i, f) == [id |-> i, fields |-> f]

\* getattr(existing, key)
Attr(e, k) == IF k = "id" THEN Uuid(e.id) ELSE Get(e.fields, k)

\* variant: fetch is handed the first container of the data, a default
\* folder when the data names none
FetchKeyFirstContainer(k, d) ==
    LET fo == Get(d, "folder")
        sn == IF fo # None THEN None ELSE Get(d, "snippet")
        dv == IF fo # None \/ sn # None \/ k = "application" THEN None ELSE Get(d, "device")
    IN  <<d["name"], IF fo = None /\ sn = None /\ dv = None THEN Str("Texas") ELSE fo, sn, dv>>

\* variant: fetch looks in the container only, under a fixed name
FetchKeyFixedName(k, d) ==
    <<Str("web1"), Get(d, "folder"), Get(d, "snippet"),
      IF k = "application" THEN None ELSE Get(d, "device")>>

\* the name and container arguments of fetch
FetchKey(k, d) ==
    <<d["name"], Get(d, "folder"), Get(d, "snippet"),
      IF k = "application" THEN None ELSE Get(d, "device")>>

\* the names the backend holds objects under
BackendNames == NameV \cup {Str("web2")}

Identities ==
    {<<n, fo, sn, dv>> : n \in BackendNames, fo \in FolderV, sn \in SnippetV, dv \in DeviceV}

ContainerCount(key) == Cardinality({i \in 2..4 : key[i] # None})

\* exactly one placement context
ValidKeys == {key \in Identities : ContainerCount(key) = 1}

TexasKey == <<Str("web1"), Str("Texas"), None, None>>

\* the schema of the SDK's create and update models
SchemaValid(k, d) ==
    /\ Cardinality(ContainerFields \cap DOMAIN d) = 1
    /\ "name" \in DOMAIN d
    /\ CASE k = "address" -> Cardinality(ExclusiveFields(k) \cap DOMAIN d) = 1
         [] k = "address_group" -> Cardinality(ExclusiveFields(k) \cap DOMAIN d) = 1
         [] k = "application" ->
                {"category", "subcategory", "technology", "risk"} \subseteq DOMAIN d
         [] k = "application_group" -> "members" \in DOMAIN d
         [] k = "service_group" -> "members" \in DOMAIN d
         [] k = "service" ->
                /\ "protocol" \in DOMAIN d
                /\ d["protocol"].tcp.given # d["protocol"].udp.given
         [] OTHER -> TRUE

\* the backend keeps an application's risk as the integer the documentation
\* declares, whatever the type it was sent as
StoredValue(k, f, v) ==
    IF k = "application" /\ f = "risk" /\ v[1] = "str" THEN IntV(v[2]) ELSE v

StoredFields(k, d) ==
    [f \in DOMAIN d \ {"id"} |-> IF f = "protocol" THEN d[f] ELSE StoredValue(k, f, d[f])]

\* the key a payload addresses
PayloadKey(d) == <<d["name"], Get(d, "folder"), Get(d, "snippet"), Get(d, "device")>>

\* an id as a mutating call carries it, against a stored object
IdMatches(o, v) == o # NoObj /\ v \in {StrOfId(o.id), Uuid(o.id)}

\* hasattr(response, 'model_dump'): a model object holds an id and fields,
\* any other response is a record of its raw value
HasModelDump(x) == "fields" \in DOMAIN x

\* variant: the id is left as the UUID the model holds
serialize_responseKeepsUuid(o) ==
    IF HasModelDump(o)
    THEN [k \in DOMAIN o.fields \cup {"id"} |->
             IF k = "id" THEN Uuid(o.id) ELSE o.fields[k]]
    ELSE o

\* serialize_response: model_dump with the id rendered as a string; a
\* response without model_dump is returned as it is
serialize_response(o) ==
    IF HasModelDump(o)
    THEN [k \in DOMAIN o.fields \cup {"id"} |->
             IF k = "id" THEN StrOfId(o.id) ELSE o.fields[k]]
    ELSE o

\* existing.model_dump(exclude_unset=True)
ModelDump(o) ==
    [k \in DOMAIN o.fields \cup {"id"} |->
        IF k = "id" THEN Uuid(o.id) ELSE o.fields[k]]

(***************************************************************************)
(* Update-need detection, per module                                       *)
(***************************************************************************)
\* address.py: the comparison is a literal False
AddressNeedUpdate(d, e) == FALSE

AddressGroupNeedUpdate(d, e) ==
    \/ Attr(e, "description") # Get(d, "description")
    \/ Attr(e, "tag") # Get(d, "tag")
    \/ Attr(e, "static") # Get(d, "static")
    \/ Attr(e, "dynamic") # Get(d, "dynamic")

\* application.py, tag.py: every key of the data that the remote model has
\* (the response models carry every argument of the module)
AttributeLoopNeedUpdate(d, e) ==
    \E key \in DOMAIN d : Attr(e, key) # d[key]

ApplicationGroupNeedUpdate(d, e) ==
    SortedKey(Attr(e, "members")) # SortedKey(GetOr(d, "members", List(<<>>)))

ServiceGroupNeedUpdate(d, e) ==
    \/ Elems(Attr(e, "members")) # Elems(GetOr(d, "members", List(<<>>)))
    \/ Attr(e, "tag") # Get(d, "tag")

\* service.py: the block of the desired kind is read from the remote dump
ServiceKeyError(d, e) ==
    /\ "protocol" \in DOMAIN d
    /\ LET p == d["protocol"]
           rp == e.fields["protocol"]
       IN  \/ p.tcp.given /\ ~rp.tcp.given
           \/ ~p.tcp.given /\ p.udp.given /\ ~rp.udp.given

\* variant: the whole block of the desired kind is compared, override included
ServiceBlockDiffers(d, e) ==
    /\ "protocol" \in DOMAIN d
    /\ LET p == d["protocol"]
           rp == e.fields["protocol"]
       IN  IF p.tcp.given THEN rp.tcp # p.tcp
           ELSE IF p.udp.given THEN rp.udp # p.udp
           ELSE FALSE

ServicePortDiffers(d, e) ==
    /\ "protocol" \in DOMAIN d
    /\ LET p == d["protocol"]
           rp == e.fields["protocol"]
       IN  IF p.tcp.given THEN rp.tcp.port # p.tcp.port
           ELSE IF p.udp.given THEN rp.udp.port # p.udp.port
           ELSE FALSE

ServiceChangedFields(d, e) ==
    {f \in {"description", "tag"} : f \in DOMAIN d /\ d[f] # Attr(e, f)}

ServiceNeedUpdate(d, e) ==
    ServicePortDiffers(d, e) \/ ServiceChangedFields(d, e) # {}

\* variant: the update data is the desired data with the id of the remote
\* object
ServiceUpdateDataFromDesired(d, e) ==
    [k \in DOMAIN d \cup {"id"} |-> IF k = "id" THEN Uuid(e.id) ELSE d[k]]

\* update_data of service.py: the remote dump with the differing fields replaced
ServiceUpdateData(d, e) ==
    LET dump == ModelDump(e)
        p == d["protocol"]
        rp == dump["protocol"]
        newp == IF ~ServicePortDiffers(d, e) THEN rp
                ELSE IF p.tcp.given THEN [rp EXCEPT !.tcp.port = p.tcp.port]
                ELSE [rp EXCEPT !.udp.port = p.udp.port]
    IN  [k \in DOMAIN dump \cup ServiceChangedFields(d, e) |->
            IF k \in ServiceChangedFields(d, e) THEN d[k]
            ELSE IF k = "protocol" THEN newp
            ELSE dump[k]]

NeedUpdate(k, d, e) ==
    CASE k = "address" -> AddressNeedUpdate(d, e)
      [] k = "address_group" -> AddressGroupNeedUpdate(d, e)
      [] k = "application" -> AttributeLoopNeedUpdate(d, e)
      [] k = "tag" -> AttributeLoopNeedUpdate(d, e)
      [] k = "application_group" -> ApplicationGroupNeedUpdate(d, e)
      [] k = "service_group" -> ServiceGroupNeedUpdate(d, e)
      [] k = "service" -> ServiceNeedUpdate(d, e)

\* variant: the update data carries the id of the first object of the backend
CopyWithFirstId(d, e) ==
    [k \in DOMAIN d \cup {"id"} |-> IF k = "id" THEN StrOfId(1) ELSE d[k]]

\* update_data = data.copy(); update_data['id'] = str(existing.id)
CopyWithId(d, e) ==
    [k \in DOMAIN d \cup {"id"} |-> IF k = "id" THEN StrOfId(e.id) ELSE d[k]]

UpdatePayload(k, d, e) ==
    CASE k = "service" -> ServiceUpdateData(d, e)
      [] k = "address" -> ModelDump(e)
      [] OTHER -> CopyWithId(d, e)

(***************************************************************************)
(* The decision of main(): what the run does after the probe               *)
(***************************************************************************)
NoResult ==
    [status |-> "none", changed |-> FALSE, has_obj |-> FALSE, obj |-> EmptyFn,
     msg |-> "", error_code |-> FALSE, http_status |-> FALSE]
ExitJson(changed) ==
    [status |-> "exit", changed |-> changed, has_obj |-> FALSE, obj |-> EmptyFn,
     msg |-> "", error_code |-> FALSE, http_status |-> FALSE]
ExitJsonObj(changed, o) ==
    [status |-> "exit", changed |-> changed, has_obj |-> TRUE, obj |-> o,
     msg |-> "", error_code |-> FALSE, http_status |-> FALSE]
FailJson(msg) ==
    [status |-> "fail", changed |-> FALSE, has_obj |-> FALSE, obj |-> EmptyFn,
     msg |-> msg, error_code |-> FALSE, http_status |-> FALSE]
FailAuth ==
    [status |-> "fail", changed |-> FALSE, has_obj |-> FALSE, obj |-> EmptyFn,
     msg |-> "authentication", error_code |-> TRUE, http_status |-> TRUE]
Crash(msg) ==
    [status |-> "crash", changed |-> FALSE, has_obj |-> FALSE, obj |-> EmptyFn,
     msg |-> msg, error_code |-> FALSE, http_status |-> FALSE]

Goto(pc, nu, payload) ==
    [next |-> pc, result |-> NoResult, need_update |-> nu, payload |-> payload]
Finish(res, nu) ==
    [next |-> "done", result |-> res, need_update |-> nu, payload |-> EmptyFn]

\* variant: check mode reports a planned create as no change
PlanCreateDryUnchanged(k, cm, d) ==
    IF k # "address" /\ ~SchemaValid(k, d) THEN Finish(FailJson("validation"), FALSE)
    ELSE IF ~cm THEN Goto("create", FALSE, d)
    ELSE Finish(ExitJson(FALSE), FALSE)

\* state present, object not found
PlanCreate(k, cm, d) ==
    IF k # "address" /\ ~SchemaValid(k, d) THEN Finish(FailJson("validation"), FALSE)
    ELSE IF ~cm THEN Goto("create", FALSE, d)
    ELSE Finish(ExitJson(TRUE), FALSE)

\* variant: an unchanged object is reported without the object
PlanUpdateBareNoOp(k, cm, d, e) ==
    IF k = "service" /\ ServiceKeyError(d, e) THEN Finish(FailJson("KeyError"), FALSE)
    ELSE IF ~NeedUpdate(k, d, e) THEN Finish(ExitJson(FALSE), FALSE)
    ELSE IF ~SchemaValid(k, UpdatePayload(k, d, e)) THEN Finish(FailJson("validation"), TRUE)
    ELSE IF ~cm THEN Goto("update", TRUE, UpdatePayload(k, d, e))
    ELSE Finish(ExitJson(TRUE), TRUE)

\* state present, object found
PlanUpdate(k, cm, d, e) ==
    IF k = "service" /\ ServiceKeyError(d, e) THEN Finish(FailJson("KeyError"), FALSE)
    ELSE IF ~NeedUpdate(k, d, e) THEN Finish(ExitJsonObj(FALSE, serialize_response(e)), FALSE)
    ELSE IF ~SchemaValid(k, UpdatePayload(k, d, e)) THEN Finish(FailJson("validation"), TRUE)
    ELSE IF ~cm THEN Goto("update", TRUE, UpdatePayload(k, d, e))
    ELSE Finish(ExitJson(TRUE), TRUE)

\* variant: an existing object is reported deleted without the delete call
PlanAbsentSkipsDelete(cm, exists) ==
    IF exists THEN Finish(ExitJson(TRUE), FALSE) ELSE Finish(ExitJson(FALSE), FALSE)

\* variant: a missing object is reported as changed
PlanAbsentAlwaysChanged(cm, exists) ==
    IF exists
    THEN IF ~cm THEN Goto("delete", FALSE, EmptyFn) ELSE Finish(ExitJson(TRUE), FALSE)
    ELSE Finish(ExitJson(TRUE), FALSE)

\* state absent
PlanAbsent(cm, exists) ==
    IF exists
    THEN IF ~cm THEN Goto("delete", FALSE, EmptyFn) ELSE Finish(ExitJson(TRUE), FALSE)
    ELSE Finish(ExitJson(FALSE), FALSE)

Plan(k, st, cm, d, exists, e) ==
    IF st = Str("present")
    THEN IF ~exists THEN PlanCreate(k, cm, d) ELSE PlanUpdate(k, cm, d, e)
    ELSE PlanAbsent(cm, exists)

(***************************************************************************)
(* AnsibleModule construction: required_if and required_one_of             *)
(***************************************************************************)
Given(p, k) == IF k = "protocol" THEN p[k].given ELSE p[k] # None

RequiredIfPresent(k) ==
    CASE k = "application" -> {"category", "subcategory", "technology", "risk"}
      [] k = "application_group" -> {"members"}
      [] k = "service_group" -> {"members"}
      [] k = "service" -> {"protocol"}
      [] OTHER -> {}

RequiredOneOf(k) == IF k = "service" THEN ContainerFields ELSE {}

ArgsOk(k, p) ==
    /\ p.state = Str("present") => \A f \in RequiredIfPresent(k) : Given(p, f)
    /\ RequiredOneOf(k) # {} => \E f \in RequiredOneOf(k) : Given(p, f)

(***************************************************************************)
(* State                                                                   *)
(***************************************************************************)
NoKey == <<None, None, None, None>>

IdleRun ==
    [pc |-> "idle", check_mode |-> FALSE, data |-> EmptyFn, exists |-> FALSE,
     existing |-> NoObj, need_update |-> FALSE, payload |-> EmptyFn,
     calls |-> <<>>, result |-> NoResult]

Call(op, outcome, key, payload, id) ==
    [op |-> op, outcome |-> outcome, key |-> key, payload |-> payload, id |-> id]

MutatingOps == {"create", "update", "delete"}

\* the mutating calls a run has issued
Mutations(rn) == SelectSeq(rn.calls, LAMBDA c : c.op \in MutatingOps)

SeedFields(k) ==
    LET base == [name |-> Str("web1"), folder |-> Str("Texas")]
        With(f, ks, vs) ==
            [x \in DOMAIN f \cup ks |-> IF x \in ks THEN vs[x] ELSE f[x]]
    IN CASE k = "address" ->
              {With(base, {"ip_netmask"}, [ip_netmask |-> Str("10.0.0.0/24")]),
               With(base, {"fqdn", "description"},
                    [fqdn |-> Str("a.example.com"), description |-> Str("d1")])}
         [] k = "address_group" ->
              {With(base, {"static"}, [static |-> List(<<"a", "b">>)]),
               With(base, {"static", "description", "tag"},
                    [static |-> List(<<"a", "b">>), description |-> Str("d1"),
                     tag |-> List(<<"t1", "t2">>)]),
               With(base, {"dynamic"}, [dynamic |-> Dict1("filter", "'t1' and 't2'")])}
         [] k = "application" ->
              {With(base, {"category", "subcategory", "technology", "risk"},
                    [category |-> Str("business-systems"), subcategory |-> Str("database"),
                     technology |-> Str("client-server"), risk |-> IntV("3")]),
               With(base, {"category", "subcategory", "technology", "risk", "description"},
                    [category |-> Str("business-systems"), subcategory |-> Str("database"),
                     technology |-> Str("client-server"), risk |-> IntV("4"),
                     description |-> Str("d1")])}
         [] k = "application_group" ->
              {With(base, {"members"}, [members |-> List(<<"a", "b">>)]),
               With(base, {"members"}, [members |-> List(<<"a">>)])}
         [] k = "service" ->
              {With(base, {"protocol"},
                    [protocol |-> [tcp |-> Block(Str("80"), NoOvr), udp |-> NoBlock]]),
               With(base, {"protocol", "description"},
                    [protocol |-> [tcp |-> Block(Str("80"), TcpOvr(0, 0, 0)), udp |-> NoBlock],
                     description |-> Str("d2")]),
               With(base, {"protocol"},
                    [protocol |-> [tcp |-> NoBlock, udp |-> Block(Str("53"), UdpOvr(0))]])}
         [] k = "service_group" ->
              {With(base, {"members"}, [members |-> List(<<"a", "b">>)])}
         [] k = "tag" ->
              {With(base, {"color"}, [color |-> Str("Blue")])}

\* the backend before the first run: nothing, or one object in folder Texas
SeedStores(k) ==
    {[key \in ValidKeys |-> NoObj]} \cup
    {[key \in ValidKeys |-> IF key = TexasKey THEN Obj(1, f) ELSE NoObj] : f \in SeedFields(k)}

\* the build script is not running
NoBuild == [pc |-> "idle", commands |-> <<>>, codes |-> [c \in {} |-> 0],
            return_codes |-> [c \in {} |-> 0], exit_code |-> 0]

Init ==
    /\ kind \in Kinds
    /\ params \in [Runs -> ParamsOf(kind)]
    /\ store \in SeedStores(kind)
    /\ nextId = 2
    /\ run = [r \in Runs |-> IdleRun]
    /\ prev = [r \in Runs |-> IdleRun]
    /\ build = NoBuild

(***************************************************************************)
(* The steps of one run of main()                                          *)
(***************************************************************************)
EndWith(rn, res) == [rn EXCEPT !.pc = "done", !.result = res]
Log(rn, c) == [rn EXCEPT !.calls = Append(@, c)]

\* AnsibleModule(argument_spec=ScmSpec.<kind>_spec(), ...)
ModuleInit(r) ==
    /\ run[r].pc = "idle"
    /\ \E cm \in BOOLEAN :
          LET rn == [run[r] EXCEPT !.check_mode = cm]
          IN  run' = [run EXCEPT ![r] =
                 IF ~HasSpec(kind) THEN EndWith(rn, Crash("AttributeError"))
                 ELSE IF ~ArgsOk(kind, params[r]) THEN EndWith(rn, FailJson("missing_args"))
                 ELSE [rn EXCEPT !.pc = "auth"]]
    /\ UNCHANGED <<build, kind, params, store, nextId, prev>>

\* variant: an AuthenticationError is reported like any other exception
GetScmClientGenericOnly(r) ==
    /\ run[r].pc = "auth"
    /\ \E o \in {"ok", "AuthenticationError", "Exception"} :
          run' = [run EXCEPT ![r] =
             CASE o = "ok" -> [@ EXCEPT !.pc = "probe", !.data = BuildData(kind, params[r])]
               [] OTHER -> EndWith(@, FailJson("authentication"))]
    /\ UNCHANGED <<build, kind, params, store, nextId, prev>>

\* get_scm_client, then build_<kind>_data
GetScmClient(r) ==
    /\ run[r].pc = "auth"
    /\ \E o \in {"ok", "AuthenticationError", "Exception"} :
          run' = [run EXCEPT ![r] =
             CASE o = "ok" -> [@ EXCEPT !.pc = "probe", !.data = BuildData(kind, params[r])]
               [] o = "AuthenticationError" -> EndWith(@, FailAuth)
               [] OTHER -> EndWith(@, FailJson("client"))]
    /\ UNCHANGED <<build, kind, params, store, nextId, prev>>

\* Client.fetch: the object at the key, NotFoundError, or another fault
FetchOutcomes(key) ==
    IF key \notin ValidKeys THEN {"fault"}
    ELSE IF store[key] = NoObj THEN {"notfound", "fault"}
    ELSE {"ok", "fault"}

\* variant: NotFoundError is not caught by the probe
FetchNotFoundRaises(r) ==
    /\ run[r].pc = "probe"
    /\ LET key == FetchKey(kind, run[r].data)
       IN \E o \in FetchOutcomes(key) :
            LET rn == Log(run[r], Call("fetch", o, key, EmptyFn, None))
            IN run' = [run EXCEPT ![r] =
                 CASE o = "ok" -> [rn EXCEPT !.pc = "decide", !.exists = TRUE,
                                              !.existing = store[key]]
                   [] OTHER -> EndWith(rn, FailJson("backend"))]
    /\ UNCHANGED <<build, kind, params, store, nextId, prev>>

\* variant: the probe swallows every exception as "not found"
FetchSwallowsFaults(r) ==
    /\ run[r].pc = "probe"
    /\ LET key == FetchKey(kind, run[r].data)
       IN \E o \in FetchOutcomes(key) :
            LET rn == Log(run[r], Call("fetch", o, key, EmptyFn, None))
            IN run' = [run EXCEPT ![r] =
                 CASE o = "ok" -> [rn EXCEPT !.pc = "decide", !.exists = TRUE,
                                              !.existing = store[key]]
                   [] OTHER -> [rn EXCEPT !.pc = "decide"]]
    /\ UNCHANGED <<build, kind, params, store, nextId, prev>>

\* get_existing_<kind>
Fetch(r) ==
    /\ run[r].pc = "probe"
    /\ LET key == FetchKey(kind, run[r].data)
       IN \E o \in FetchOutcomes(key) :
            LET rn == Log(run[r], Call("fetch", o, key, EmptyFn, None))
            IN run' = [run EXCEPT ![r] =
                 CASE o = "ok" -> [rn EXCEPT !.pc = "decide", !.exists = TRUE,
                                              !.existing = store[key]]
                   [] o = "notfound" -> [rn EXCEPT !.pc = "decide"]
                   [] OTHER -> EndWith(rn, FailJson("backend"))]
    /\ UNCHANGED <<build, kind, params, store, nextId, prev>>

\* variant: a run that follows a successful run remembers it and reports
\* "no change" without comparing
DecideRemembersSuccess(r) ==
    /\ run[r].pc = "decide"
    /\ LET rn == run[r]
           pl == IF prev[r].pc = "done" /\ prev[r].result.status = "exit"
                 THEN Finish(ExitJson(FALSE), FALSE)
                 ELSE Plan(kind, params[r].state, rn.check_mode, rn.data, rn.exists,
                           rn.existing)
       IN run' = [run EXCEPT ![r] =
              [rn EXCEPT !.pc = pl.next, !.result = pl.result,
                         !.need_update = pl.need_update, !.payload = pl.payload]]
    /\ UNCHANGED <<build, kind, params, store, nextId, prev>>

\* variant: the decision reads the backend again instead of using the
\* result of the probe
DecideOnCurrentState(r) ==
    /\ run[r].pc = "decide"
    /\ LET rn == run[r]
           cur == store[FetchKey(kind, rn.data)]
           pl == Plan(kind, params[r].state, rn.check_mode, rn.data, cur # NoObj, cur)
       IN run' = [run EXCEPT ![r] =
              [rn EXCEPT !.pc = pl.next, !.result = pl.result,
                         !.need_update = pl.need_update, !.payload = pl.payload]]
    /\ UNCHANGED <<build, kind, params, store, nextId, prev>>

\* the branches on state, exists, need_update and check_mode
Decide(r) ==
    /\ run[r].pc = "decide"
    /\ LET rn == run[r]
           pl == Plan(kind, params[r].state, rn.check_mode, rn.data, rn.exists, rn.existing)
       IN run' = [run EXCEPT ![r] =
              [rn EXCEPT !.pc = pl.next, !.result = pl.result,
                         !.need_update = pl.need_update, !.payload = pl.payload]]
    /\ UNCHANGED <<build, kind, params, store, nextId, prev>>

\* variant: a failed mutating call is attempted again
OnFaultRetry(rn, msg) == rn

\* variant: a mutating call that raised is reported as a change
OnFaultReportsChanged(rn, msg) == EndWith(rn, ExitJson(TRUE))

\* a mutating call raised: the except clause of main() ends the run
OnFault(rn, msg) == EndWith(rn, FailJson(msg))

\* Client.create accepts a payload its schema accepts, at a free key
CreateOutcomes(d) ==
    IF SchemaValid(kind, d) /\ PayloadKey(d) \in ValidKeys /\ store[PayloadKey(d)] = NoObj
    THEN {"ok", "fault"}
    ELSE {"fault"}

\* the backend allocates the identifiers 1 .. MaxId
MaxId == 4

\* <kind>_api.create(data=...), exit_json(changed=True, <kind>=serialize_response(result))
Create(r) ==
    /\ run[r].pc = "create"
    /\ nextId <= MaxId
    /\ LET d == run[r].payload
           key == PayloadKey(d)
           created == Obj(nextId, StoredFields(kind, d))
       IN \E o \in CreateOutcomes(d) :
            LET rn == Log(run[r], Call("create", o, NoKey, d, None))
            IN IF o = "ok"
               THEN /\ store' = [store EXCEPT ![key] = created]
                    /\ nextId' = nextId + 1
                    /\ run' = [run EXCEPT ![r] =
                          EndWith(rn, ExitJsonObj(TRUE, serialize_response(created)))]
               ELSE /\ run' = [run EXCEPT ![r] =
                          OnFault(rn, IF SchemaValid(kind, d) THEN "backend" ELSE "validation")]
                    /\ UNCHANGED <<store, nextId>>
    /\ UNCHANGED <<build, kind, params, prev>>

\* Client.update replaces the object the payload's id names
UpdateOutcomes(p) ==
    IF PayloadKey(p) \in ValidKeys /\ IdMatches(store[PayloadKey(p)], p["id"])
    THEN {"ok", "fault"}
    ELSE {"fault"}

\* <kind>_api.update(<model>), exit_json(changed=True, <kind>=serialize_response(result))
Update(r) ==
    /\ run[r].pc = "update"
    /\ LET p == run[r].payload
           key == PayloadKey(p)
           updated == Obj(store[key].id, StoredFields(kind, p))
       IN \E o \in UpdateOutcomes(p) :
            LET rn == Log(run[r], Call("update", o, NoKey, p, p["id"]))
            IN IF o = "ok"
               THEN /\ store' = [store EXCEPT ![key] = updated]
                    /\ run' = [run EXCEPT ![r] =
                          EndWith(rn, ExitJsonObj(TRUE, serialize_response(updated)))]
               ELSE /\ run' = [run EXCEPT ![r] = OnFault(rn, "backend")]
                    /\ UNCHANGED store
    /\ UNCHANGED <<build, kind, params, nextId, prev>>

\* Client.delete removes the object with the id
DeleteOutcomes(id) ==
    IF \E key \in ValidKeys : IdMatches(store[key], id) THEN {"ok", "fault"} ELSE {"fault"}

\* <kind>_api.delete(str(existing.id)), exit_json(changed=True)
Delete(r) ==
    /\ run[r].pc = "delete"
    /\ LET id == StrOfId(run[r].existing.id)
       IN \E o \in DeleteOutcomes(id) :
            LET rn == Log(run[r], Call("delete", o, NoKey, EmptyFn, id))
            IN IF o = "ok"
               THEN /\ store' = [key \in ValidKeys |->
                                   IF IdMatches(store[key], id) THEN NoObj ELSE store[key]]
                    /\ run' = [run EXCEPT ![r] = EndWith(rn, ExitJson(TRUE))]
               ELSE /\ run' = [run EXCEPT ![r] = OnFault(rn, "backend")]
                    /\ UNCHANGED store
    /\ UNCHANGED <<build, kind, params, nextId, prev>>

\* the process has exited; the task is run again later
EndRun(r) ==
    /\ run[r].pc = "done"
    /\ prev' = [prev EXCEPT ![r] = run[r]]
    /\ run' = [run EXCEPT ![r] = IdleRun]
    /\ UNCHANGED <<build, kind, params, store, nextId>>

Next ==
    \E r \in Runs :
        \/ ModuleInit(r)
        \/ GetScmClient(r)
        \/ Fetch(r)
        \/ Decide(r)
        \/ Create(r)
        \/ Update(r)
        \/ Delete(r)
        \/ EndRun(r)

Spec == Init /\ [][Next]_vars

(***************************************************************************)
(* scripts/build.py: the lint and lint_and_test commands run their tools   *)
(* in one thread each and exit when all of them have returned.             *)
(***************************************************************************)
LintCommands == <<"black", "mypy", "flake8", "yamllint", "flynt">>
LintAndTestCommands == <<"black", "mypy", "flake8", "pytest", "yamllint", "flynt">>

Tools == {"black", "mypy", "flake8", "pytest", "yamllint", "flynt"}

\* the return codes a tool may end with
ReturnCodes == {0, 1, 2}

\* the build script is about to be called; codes holds what each tool will return
InitBuild ==
    /\ kind = "address"
    /\ params = [r \in Runs |-> EmptyFn]
    /\ store = [key \in ValidKeys |-> NoObj]
    /\ nextId = 2
    /\ run = [r \in Runs |-> IdleRun]
    /\ prev = [r \in Runs |-> IdleRun]
    /\ \E c \in [Tools -> ReturnCodes] : build = [NoBuild EXCEPT !.codes = c]

\* _run_commands_threaded(commands): one _run_for_thread per command is submitted
run_commands_threaded(commands) ==
    /\ build.pc = "idle"
    /\ build' = [build EXCEPT !.pc = "running", !.commands = commands]
    /\ UNCHANGED <<kind, params, store, nextId, run, prev>>

lint == run_commands_threaded(LintCommands)

lint_and_test == run_commands_threaded(LintAndTestCommands)

\* a thread returns, in any order, and its return code is entered in the
\* dict return_codes under its command
run_for_thread ==
    /\ build.pc = "running"
    /\ \E i \in 1..Len(build.commands) :
          LET command == build.commands[i]
          IN  /\ command \notin DOMAIN build.return_codes
              /\ build' = [build EXCEPT !.return_codes =
                              [c \in DOMAIN @ \cup {command} |->
                                  IF c = command THEN build.codes[command] ELSE @[c]]]
    /\ UNCHANGED <<kind, params, store, nextId, run, prev>>

\* variant: the script exits as soon as one command has returned non-zero
exit_buildOnFirstError ==
    /\ build.pc = "running"
    /\ LET error_found == \E c \in DOMAIN build.return_codes : build.return_codes[c] # 0
       IN  /\ error_found \/ \A i \in 1..Len(build.commands) :
                                 build.commands[i] \in DOMAIN build.return_codes
           /\ build' = [build EXCEPT !.pc = "exited",
                                     !.exit_code = IF error_found THEN 1 ELSE 0]
    /\ UNCHANGED <<kind, params, store, nextId, run, prev>>

\* every thread has returned: sys.exit(1) when an error was found, sys.exit() otherwise
exit_build ==
    /\ build.pc = "running"
    /\ \A i \in 1..Len(build.commands) : build.commands[i] \in DOMAIN build.return_codes
    /\ LET error_found == \E c \in DOMAIN build.return_codes : build.return_codes[c] # 0
       IN  build' = [build EXCEPT !.pc = "exited",
                                  !.exit_code = IF error_found THEN 1 ELSE 0]
    /\ UNCHANGED <<kind, params, store, nextId, run, prev>>

NextBuild == lint \/ lint_and_test \/ run_for_thread \/ exit_build

SpecBuild == InitBuild /\ [][NextBuild]_vars

(***************************************************************************)
(* Two tasks of one module run at the same time, each in its own process   *)
(* with its own client, against the same backend.  They target different   *)
(* identities: the second task names another object or another container.  *)
(***************************************************************************)
ParRuns == {"r1", "r2"}
ParKinds == {"address_group", "application_group"}

\* the key of the object a task names
OwnKey(r) ==
    <<params[r].name, Get(params[r], "folder"), Get(params[r], "snippet"),
      Get(params[r], "device")>>

\* the keys of the second task
OtherKeys == {<<Str("web2"), Str("Texas"), None, None>>,
              <<Str("web1"), None, Str("Snip"), None>>}

\* parameter sets that name web1 in folder Texas and pass the schema
ParParams(k) ==
    {p \in ParamsOf(k) :
        /\ SchemaValid(k, BuildData(k, p))
        /\ DOMAIN BuildData(k, p) \subseteq {"name", "folder", "static", "members"}}

\* the same parameters or fields under another key
AtKey(f, key) ==
    [x \in DOMAIN f |->
        CASE x = "name" -> key[1]
          [] x = "folder" -> key[2]
          [] x = "snippet" -> key[3]
          [] x = "device" -> key[4]
          [] OTHER -> f[x]]

\* the fields of a stored object under another key
FieldsAtKey(f, key) ==
    LET g == [x \in DOMAIN f \cup ContainerFields |->
                 IF x \in DOMAIN f THEN f[x] ELSE None]
    IN  BuildPlainData(AtKey(g, key), {})

InitPar ==
    /\ kind \in ParKinds
    /\ \E key2 \in OtherKeys :
          /\ \E p1 \in ParParams(kind), p2 \in ParParams(kind) :
                params = [r \in ParRuns |-> IF r = "r1" THEN p1 ELSE AtKey(p2, key2)]
          /\ \E o1 \in {NoObj} \cup {Obj(1, f) : f \in SeedFields(kind)},
                o2 \in {NoObj} \cup {Obj(2, FieldsAtKey(f, key2)) : f \in SeedFields(kind)} :
                store = [key \in ValidKeys |->
                            IF key = TexasKey THEN o1 ELSE IF key = key2 THEN o2 ELSE NoObj]
    /\ nextId = 3
    /\ run = [r \in ParRuns |-> IdleRun]
    /\ prev = [r \in ParRuns |-> IdleRun]
    /\ build = NoBuild

\* each task is run once; the steps of the two processes interleave in any order
NextPar ==
    \E r \in ParRuns :
        \/ ModuleInit(r)
        \/ GetScmClient(r)
        \/ Fetch(r)
        \/ Decide(r)
        \/ Create(r)
        \/ Update(r)
        \/ Delete(r)

SpecPar == InitPar /\ [][NextPar]_vars

(***************************************************************************)
(* Two tasks of one module that name the same object run at the same time  *)
(* and again and again: nothing in main() takes a lock, so the steps of    *)
(* the two processes interleave between a probe and the call it leads to.  *)
(***************************************************************************)
RaceKinds == {"address_group"}

\* the backend before the first run: nothing, or the object with its
\* defining field only
RaceStores(k) ==
    {s \in SeedStores(k) : DOMAIN s[TexasKey].fields \subseteq {"name", "folder", "static"}}

InitRace ==
    /\ kind \in RaceKinds
    /\ params \in [ParRuns -> ParParams(kind)]
    /\ store \in RaceStores(kind)
    /\ nextId = 2
    /\ run = [r \in ParRuns |-> IdleRun]
    /\ prev = [r \in ParRuns |-> IdleRun]
    /\ build = NoBuild

NextRace ==
    \E r \in ParRuns :
        \/ ModuleInit(r)
        \/ GetScmClient(r)
        \/ Fetch(r)
        \/ Decide(r)
        \/ Create(r)
        \/ Update(r)
        \/ Delete(r)
        \/ EndRun(r)

SpecRace == InitRace /\ [][NextRace]_vars

(***************************************************************************)
(* The design's Diff Engine and decision table, for stating the claims     *)
(***************************************************************************)
IdentityFields == {"name", "folder", "snippet", "device"}

\* a desired override merged onto the defaults of its protocol kind
FillTcp(o) == IF o.given THEN o ELSE TcpOvr(0, 0, 0)
FillUdp(o) == IF o.given THEN o ELSE UdpOvr(0)

ProtocolDiffers(p, rp) ==
    \/ p.tcp.given # rp.tcp.given
    \/ p.udp.given # rp.udp.given
    \/ p.tcp.given /\ p.tcp.port # rp.tcp.port
    \/ p.udp.given /\ p.udp.port # rp.udp.port
    \/ p.tcp.given /\ FillTcp(p.tcp.override) # FillTcp(rp.tcp.override)
    \/ p.udp.given /\ FillUdp(p.udp.override) # FillUdp(rp.udp.override)

\* scalars by value, lists as sets, protocol blocks with defaults filled
FieldDiffers(k, f, dv, e) ==
    IF f = "protocol"
    THEN "protocol" \notin DOMAIN e.fields \/ ProtocolDiffers(dv, e.fields[f])
    ELSE IF dv[1] = "list" /\ Attr(e, f)[1] = "list" THEN Elems(dv) # Elems(Attr(e, f))
    ELSE StoredValue(k, f, dv) # Attr(e, f)

\* the fields the desired data sets and the remote object holds differently
ChangeSet(k, d, e) ==
    {f \in DOMAIN d \ IdentityFields : FieldDiffers(k, f, d[f], e)}

TableAction(st, exists, changes) ==
    IF st = Str("present")
    THEN IF ~exists THEN "create" ELSE IF changes = {} THEN "noop" ELSE "update"
    ELSE IF exists THEN "delete" ELSE "noop"

(***************************************************************************)
(* Vocabulary of the claims                                                *)
(***************************************************************************)
IsPresent(r) == params[r].state = Str("present")
IsAbsent(r) == params[r].state = Str("absent")
Done(rn) == rn.pc = "done"
Exited(rn) == rn.pc = "done" /\ rn.result.status = "exit"
Failed(rn) == rn.pc = "done" /\ rn.result.status = "fail"
Probed(rn) == rn.calls # <<>> /\ rn.calls[1].op = "fetch"
ProbeFound(rn) == Probed(rn) /\ rn.calls[1].outcome = "ok"
ProbeNotFound(rn) == Probed(rn) /\ rn.calls[1].outcome = "notfound"
\* the run has left the decision behind
Decided(rn) == (ProbeFound(rn) \/ ProbeNotFound(rn)) /\ rn.pc # "decide"
\* no backend call of the run raised a fault
NoFault(rn) == \A i \in 1..Len(rn.calls) : rn.calls[i].outcome # "fault"
\* the attributes the caller desires: every given parameter but provider and state
DesiredAttrs(p) ==
    [k \in {f \in DOMAIN p \ {"provider", "state"} : Given(p, f)} |->
        IF k = "protocol" THEN [tcp |-> p[k].tcp, udp |-> p[k].udp] ELSE p[k]]
\* the desired spec passes the schema
SpecValid(k, p) ==
    /\ SchemaValid(k, DesiredAttrs(p))
    /\ k = "service" => \A b \in {p.protocol.tcp, p.protocol.udp} : b.given => Truthy(b.port)
\* what a finished run reports
Outcome(rn) ==
    IF rn.result.status = "exit"
    THEN <<"exit", IF rn.result.changed THEN "changed" ELSE "unchanged">>
    ELSE <<rn.result.status, rn.result.msg>>

(***************************************************************************)
(* Claims                                                                  *)
(***************************************************************************)
\* the previous run of the task succeeded and was no dry-run
PrevRealSuccess(r) == Exited(prev[r]) /\ ~prev[r].check_mode

\* C1: after one successful non-dry-run reconciliation, the next run of the
\* same spec issues no create, update or delete call and reports changed=false.
C1_Idempotence ==
    \A r \in Runs :
        PrevRealSuccess(r) =>
            /\ Mutations(run[r]) = <<>>
            /\ run[r].pc \notin MutatingOps
            /\ Exited(run[r]) => ~run[r].result.changed

\* C2: a non-dry-run with intent present whose probe finds an object that
\* differs from the desired spec in a field the spec sets issues exactly one
\* update call and reports changed=true.
C2_UpdateRow ==
    \A r \in Runs :
        LET rn == run[r]
        IN  ( /\ IsPresent(r) /\ ~rn.check_mode /\ ProbeFound(rn) /\ Decided(rn)
              /\ ChangeSet(kind, rn.data, rn.existing) # {} )
            => \/ rn.pc = "update" /\ Mutations(rn) = <<>>
               \/ /\ Done(rn)
                  /\ Len(Mutations(rn)) = 1
                  /\ Mutations(rn)[1].op = "update"
                  /\ Mutations(rn)[1].outcome = "ok" => Exited(rn) /\ rn.result.changed

\* C3: a non-dry-run with intent present, a valid spec and a probe that
\* returns NotFound issues exactly one create call carrying the desired
\* attributes, no update or delete call, and on success reports changed=true
\* with the serialized created object.
C3_CreateRow ==
    \A r \in Runs :
        LET rn == run[r]
            want == DesiredAttrs(params[r])
        IN  ( /\ IsPresent(r) /\ ~rn.check_mode /\ ProbeNotFound(rn) /\ Decided(rn)
              /\ SpecValid(kind, params[r]) )
            => \/ rn.pc = "create" /\ Mutations(rn) = <<>> /\ rn.payload = want
               \/ /\ Done(rn)
                  /\ Len(Mutations(rn)) = 1
                  /\ Mutations(rn)[1].op = "create"
                  /\ Mutations(rn)[1].payload = want
                  /\ Mutations(rn)[1].outcome = "ok" =>
                        /\ Exited(rn) /\ rn.result.changed /\ rn.result.has_obj
                        /\ rn.result.obj = serialize_response(store[FetchKey(kind, rn.data)])
                        /\ rn.result.obj["id"][1] = "str"
                        /\ \A f \in DOMAIN want :
                              rn.result.obj[f] =
                                 IF f = "protocol" THEN want[f] ELSE StoredValue(kind, f, want[f])

C3_Witness ==
    \E r \in Runs :
        /\ IsPresent(r) /\ ~run[r].check_mode /\ ProbeNotFound(run[r])
        /\ SpecValid(kind, params[r])
        /\ Exited(run[r]) /\ run[r].result.changed /\ run[r].result.has_obj
        /\ Len(Mutations(run[r])) = 1

\* C4: every run that gets past authentication, validation and the probe
\* takes exactly the action the decision table gives for (intent, exists,
\* ChangeSet empty); present with an existing object and an empty ChangeSet
\* issues no mutating call and reports changed=false.
C4_DecisionTable ==
    \A r \in Runs :
        LET rn == run[r]
            act == TableAction(params[r].state, rn.exists,
                               IF rn.exists THEN ChangeSet(kind, rn.data, rn.existing) ELSE {})
        IN  (Decided(rn) /\ ~(Failed(rn) /\ rn.result.msg = "validation"))
            => IF act = "noop"
               THEN Exited(rn) /\ ~rn.result.changed /\ Mutations(rn) = <<>>
               ELSE IF rn.check_mode
               THEN Exited(rn) /\ rn.result.changed /\ Mutations(rn) = <<>>
               ELSE \/ rn.pc = act /\ Mutations(rn) = <<>>
                    \/ Done(rn) /\ Len(Mutations(rn)) = 1 /\ Mutations(rn)[1].op = act

\* the previous run deleted the object
PrevDeleted(r) ==
    /\ Exited(prev[r]) /\ prev[r].result.changed
    /\ Len(Mutations(prev[r])) = 1
    /\ Mutations(prev[r])[1].op = "delete"
    /\ Mutations(prev[r])[1].outcome = "ok"

\* C5: a non-dry-run with intent absent whose probe finds the object issues
\* exactly one delete call, addressed by the object's id, and reports
\* changed=true with no object; the run after a successful delete finds
\* nothing, issues no delete call and reports changed=false.
C5_DeleteRow ==
    \A r \in Runs :
        LET rn == run[r]
        IN  /\ (IsAbsent(r) /\ ~rn.check_mode /\ ProbeFound(rn) /\ Decided(rn))
                => \/ rn.pc = "delete" /\ Mutations(rn) = <<>>
                   \/ /\ Done(rn)
                      /\ Len(Mutations(rn)) = 1
                      /\ Mutations(rn)[1].op = "delete"
                      /\ Mutations(rn)[1].id = StrOfId(rn.existing.id)
                      /\ IF Mutations(rn)[1].outcome = "ok"
                         THEN Exited(rn) /\ rn.result.changed /\ ~rn.result.has_obj
                         ELSE Failed(rn)
            /\ PrevDeleted(r)
                => /\ ~ProbeFound(rn)
                   /\ Mutations(rn) = <<>>
                   /\ rn.pc \notin MutatingOps
                   /\ Exited(rn) => ~rn.result.changed

C5_Witness ==
    \E r \in Runs :
        /\ PrevDeleted(r) /\ ~prev[r].check_mode /\ ProbeFound(prev[r])
        /\ IsAbsent(r) /\ ProbeNotFound(run[r])
        /\ Exited(run[r]) /\ ~run[r].result.changed

\* C6: a run with intent absent whose probe returns NotFound reports
\* changed=false and issues no mutating call, in check mode or not.
C6_DeletionNoOp ==
    \A r \in Runs :
        LET rn == run[r]
        IN  (IsAbsent(r) /\ ProbeNotFound(rn) /\ Decided(rn))
            => /\ Exited(rn) /\ ~rn.result.changed /\ ~rn.result.has_obj
               /\ Mutations(rn) = <<>>

C6_Witness ==
    \E r \in Runs :
        /\ IsAbsent(r) /\ ProbeNotFound(run[r]) /\ Exited(run[r])
        /\ ~run[r].check_mode /\ ~run[r].result.changed

\* C7: a run issues at most one create, update or delete call; when that
\* call fails it is the run's last backend call and the run ends in failure.
C7_SingleAttempt ==
    \A r \in Runs :
        LET rn == run[r]
        IN  /\ Len(Mutations(rn)) <= 1
            /\ \A i \in 1..Len(rn.calls) :
                  (rn.calls[i].op \in MutatingOps /\ rn.calls[i].outcome = "fault")
                  => i = Len(rn.calls) /\ Failed(rn)

C7_Witness ==
    \E r \in Runs :
        /\ Len(Mutations(run[r])) = 1
        /\ Mutations(run[r])[1].outcome = "fault"
        /\ Failed(run[r])

\* C8: a run in check mode never issues a create, update or delete call,
\* while validation and the comparison against the remote object are still
\* performed: it reports a planned create only for data the schema accepts,
\* and reports changed=true whenever the found object differs from the spec.
C8_DryRun ==
    \A r \in Runs :
        LET rn == run[r]
        IN  rn.check_mode =>
              /\ Mutations(rn) = <<>>
              /\ rn.pc \notin MutatingOps
              /\ (IsPresent(r) /\ ProbeNotFound(rn) /\ Exited(rn))
                    => SchemaValid(kind, rn.data)
              /\ (IsPresent(r) /\ ProbeFound(rn) /\ Exited(rn)
                    /\ ChangeSet(kind, rn.data, rn.existing) # {})
                    => rn.result.changed

\* a finished run that met no backend fault, no client fault
Clean(rn) ==
    Done(rn) /\ NoFault(rn) /\ rn.result.status # "crash"
    /\ rn.result.msg \notin {"authentication", "client"}

\* C9: a dry-run reports the changed flag, or the validation failure, that
\* a real run on the same backend state reports when its calls succeed; a
\* dry-run that would create reports changed=true with no object.
C9_DryRunFidelity ==
    \A r \in Runs :
        LET a == prev[r]
            b == run[r]
        IN  /\ ( /\ Clean(a) /\ Clean(b)
                 /\ a.check_mode # b.check_mode
                 /\ Mutations(a) = <<>> )
               => Outcome(a) = Outcome(b)
            /\ (b.check_mode /\ IsPresent(r) /\ ProbeNotFound(b) /\ Exited(b))
               => b.result.changed /\ ~b.result.has_obj

C9_Witness ==
    \E r \in Runs :
        /\ Clean(prev[r]) /\ prev[r].check_mode /\ Exited(prev[r]) /\ prev[r].result.changed
        /\ IsPresent(r) /\ ProbeNotFound(prev[r])
        /\ Clean(run[r]) /\ ~run[r].check_mode /\ Exited(run[r]) /\ run[r].result.changed
        /\ Len(Mutations(run[r])) = 1

\* the spec sets two or more of the kind's mutually exclusive fields
SetsExclusive(k, p) ==
    \/ Cardinality({f \in ExclusiveFields(k) : Given(p, f)}) >= 2
    \/ k = "service" /\ p.protocol.given /\ p.protocol.tcp.given /\ p.protocol.udp.given

\* the spec names exactly one container
OneContainer(p) == Cardinality({f \in ContainerFields \cap DOMAIN p : Given(p, f)}) = 1

\* C10: a spec that sets two or more of its mutually exclusive fields fails
\* validation, and the run makes no backend call, the probe included (stated
\* for specs that are otherwise well placed, in exactly one container).
C10_MutualExclusion ==
    \A r \in Runs :
        (SetsExclusive(kind, params[r]) /\ OneContainer(params[r])) =>
            /\ run[r].calls = <<>>
            /\ Done(run[r]) => Failed(run[r])

\* the run was rejected by schema validation
Rejected(rn) == Failed(rn) /\ rn.result.msg = "validation"

\* C11: the steps of a run happen in the order validate, resolve container,
\* probe, diff, decide, mutate, report: a run that schema validation rejects
\* has issued no fetch call, and a mutating call is the second backend call
\* of its run, after a fetch call that completed.
C11_StepOrder ==
    \A r \in Runs :
        LET rn == run[r]
        IN  /\ Rejected(rn) => rn.calls = <<>>
            /\ \A i \in 1..Len(rn.calls) :
                  rn.calls[i].op \in MutatingOps =>
                     /\ i = 2
                     /\ rn.calls[1].op = "fetch"
                     /\ rn.calls[1].outcome \in {"ok", "notfound"}
            /\ rn.pc \in MutatingOps => Decided(rn)

\* C12: a run that ends with a validation failure has issued no create,
\* update or delete call.
C12_RejectedNeverMutates ==
    \A r \in Runs : Rejected(run[r]) => Mutations(run[r]) = <<>>

\* the number of containers the parameters name
Containers(p) == Cardinality({f \in ContainerFields \cap DOMAIN p : Given(p, f)})

LacksDefining(k, p) ==
    CASE k = "address" -> \A f \in ExclusiveFields(k) : ~Given(p, f)
      [] k = "address_group" -> \A f \in ExclusiveFields(k) : ~Given(p, f)
      [] k = "application" ->
             \E f \in {"category", "subcategory", "technology", "risk"} : ~Given(p, f)
      [] k = "application_group" -> ~Given(p, "members")
      [] k = "service_group" -> ~Given(p, "members")
      [] k = "service" -> ~Given(p, "protocol")
      [] OTHER -> FALSE

\* C14: a run with intent present whose parameters lack the resource-defining
\* fields of the kind issues no create or update call and does not end in
\* success.
C14_RequiredFields ==
    \A r \in Runs :
        LET rn == run[r]
        IN  (IsPresent(r) /\ LacksDefining(kind, params[r])) =>
               /\ \A i \in 1..Len(rn.calls) : rn.calls[i].op \notin {"create", "update"}
               /\ Done(rn) => ~Exited(rn)

\* C15: a probe that ends with NotFoundError does not fail the run: the run
\* continues with exists=false, with intent absent it reports changed=false,
\* and with intent present it goes on to create (the planned create in check
\* mode) unless the data is rejected.
C15_NotFoundIsNormal ==
    \A r \in Runs :
        LET rn == run[r]
        IN  ProbeNotFound(rn) =>
               /\ ~rn.exists
               /\ rn.pc \in {"decide", "create", "done"}
               /\ (Failed(rn) /\ ~Rejected(rn)) =>
                      Len(rn.calls) = 2 /\ rn.calls[2].outcome = "fault"
               /\ (Done(rn) /\ IsAbsent(r)) => Exited(rn) /\ ~rn.result.changed
               /\ (Done(rn) /\ IsPresent(r) /\ ~Rejected(rn)) =>
                      IF rn.check_mode
                      THEN Exited(rn) /\ rn.result.changed /\ rn.calls[Len(rn.calls)].op = "fetch"
                      ELSE rn.calls[Len(rn.calls)].op = "create"

C15_Witness ==
    \E r \in Runs :
        /\ ProbeNotFound(run[r]) /\ IsPresent(r) /\ ~run[r].check_mode
        /\ Exited(run[r]) /\ run[r].result.changed
        /\ run[r].calls[Len(run[r].calls)].op = "create"

\* the message of the error a failed call raised
FaultMessage(c) ==
    IF c.op = "create" /\ ~SchemaValid(kind, c.payload) THEN "validation" ELSE "backend"

\* C16: when a backend call fails with an error other than the probe's
\* NotFoundError, the run ends in failure with that error's message, reports
\* no change, and the failed call is its last backend call; a failed probe
\* is the run's only call.
C16_FaultsAreTerminal ==
    \A r \in Runs :
        LET rn == run[r]
        IN  \A i \in 1..Len(rn.calls) :
               rn.calls[i].outcome = "fault" =>
                  /\ i = Len(rn.calls)
                  /\ Failed(rn)
                  /\ rn.result.msg = FaultMessage(rn.calls[i])
                  /\ ~rn.result.changed /\ ~rn.result.has_obj
                  /\ rn.calls[i].op = "fetch" => Mutations(rn) = <<>>

C16_Witness ==
    \E r \in Runs :
        /\ Probed(run[r]) /\ run[r].calls[1].outcome = "fault"
        /\ FetchKey(kind, run[r].data) \in ValidKeys
        /\ Failed(run[r]) /\ run[r].result.msg = "backend"

\* the run passed module construction and met an AuthenticationError
AuthFailed(rn) == Failed(rn) /\ rn.result.msg = "authentication"

\* C17: a run whose client creation fails with AuthenticationError ends in
\* failure, its result carries the error code and the HTTP status, and the
\* run has issued no fetch, create, update or delete call.
C17_AuthFailureIsTerminal ==
    \A r \in Runs :
        LET rn == run[r]
        IN  /\ AuthFailed(rn) =>
                  /\ rn.result.error_code /\ rn.result.http_status
                  /\ rn.calls = <<>>
                  /\ ~rn.result.changed
            /\ rn.calls # <<>> => ~AuthFailed(rn)

C17_Witness ==
    \E r \in Runs :
        /\ AuthFailed(run[r]) /\ run[r].result.error_code /\ run[r].calls = <<>>

\* a list value
IsList(v) == v[1] = "list"

\* the desired data and the remote object hold the same value in every field,
\* up to the order and the repetition of the elements of a list
SameUpToListOrder(d, e) ==
    /\ DOMAIN d = DOMAIN e.fields
    /\ \A f \in DOMAIN d :
          \/ d[f] = e.fields[f]
          \/ f # "protocol" /\ IsList(d[f]) /\ IsList(e.fields[f])
                /\ Elems(d[f]) = Elems(e.fields[f])

\* a list the desired data sets differs, as a set, from the remote list
SomeListDiffers(d, e) ==
    \E f \in DOMAIN d \ {"protocol"} :
        /\ IsList(d[f])
        /\ f \in DOMAIN e.fields
        /\ IsList(e.fields[f])
        /\ Elems(d[f]) # Elems(e.fields[f])

\* C18: list-valued fields are compared as sets: a desired spec that differs
\* from the found object only in the order or the repetition of list
\* elements needs no update and reports changed=false, and a list whose set
\* of elements differs from the remote one is detected as a change.
C18_SetEquality ==
    \A r \in Runs :
        LET rn == run[r]
        IN  (IsPresent(r) /\ ProbeFound(rn) /\ Decided(rn)) =>
               /\ SameUpToListOrder(rn.data, rn.existing) =>
                     /\ ~rn.need_update
                     /\ Mutations(rn) = <<>>
                     /\ Exited(rn) /\ ~rn.result.changed
               /\ SomeListDiffers(rn.data, rn.existing) =>
                     rn.need_update /\ ~(Exited(rn) /\ ~rn.result.changed)

\* every field the desired data sets holds the remote object's value
SetFieldsAgree(d, e) ==
    \A f \in DOMAIN d : f \in DOMAIN e.fields /\ d[f] = e.fields[f]

\* C19: a field the desired spec leaves unset is excluded from the
\* comparison: when every field a valid spec sets holds the remote value, the
\* ChangeSet is empty and the run needs no update and reports changed=false,
\* whatever the remote object holds in the other fields.
C19_UnsetFieldsLeftAsIs ==
    \A r \in Runs :
        LET rn == run[r]
        IN  ( /\ IsPresent(r) /\ ProbeFound(rn) /\ Decided(rn)
              /\ SpecValid(kind, params[r])
              /\ SetFieldsAgree(rn.data, rn.existing) ) =>
               /\ ChangeSet(kind, rn.data, rn.existing) = {}
               /\ ~rn.need_update
               /\ Mutations(rn) = <<>>
               /\ Exited(rn) /\ ~rn.result.changed

\* a service spec with one protocol block and no override, against a remote
\* service of the same kind and port whose override holds the defaults, the
\* other fields the spec sets being equal
DefaultFillCase(p, e) ==
    /\ p.protocol.given
    /\ p.protocol.tcp.given # p.protocol.udp.given
    /\ "protocol" \in DOMAIN e.fields
    /\ LET b == IF p.protocol.tcp.given THEN p.protocol.tcp ELSE p.protocol.udp
           rb == IF p.protocol.tcp.given THEN e.fields["protocol"].tcp
                 ELSE e.fields["protocol"].udp
       IN  /\ Truthy(b.port) /\ ~b.override.given
           /\ rb.given /\ rb.port = b.port
           /\ rb.override = IF p.protocol.tcp.given THEN TcpOvr(0, 0, 0) ELSE UdpOvr(0)
    /\ \A f \in {"description", "tag"} : Given(p, f) => p[f] = Attr(e, f)

\* C20: a service spec with a tcp (or udp) block and no override, against an
\* existing service with the same port whose stored override equals the
\* defaults, gives an empty ChangeSet and reports changed=false without a
\* mutating call.
C20_DefaultFill ==
    \A r \in Runs :
        LET rn == run[r]
        IN  ( /\ kind = "service" /\ IsPresent(r) /\ ProbeFound(rn) /\ Decided(rn)
              /\ DefaultFillCase(params[r], rn.existing) ) =>
               /\ ChangeSet(kind, rn.data, rn.existing) = {}
               /\ ~rn.need_update
               /\ Mutations(rn) = <<>>
               /\ Exited(rn) /\ ~rn.result.changed

C20_Witness ==
    \E r \in Runs :
        /\ kind = "service" /\ IsPresent(r) /\ ProbeFound(run[r])
        /\ DefaultFillCase(params[r], run[r].existing)
        /\ params[r].protocol.udp.given
        /\ Exited(run[r]) /\ ~run[r].result.changed /\ run[r].result.has_obj


\* the override values a caller may give; 0 stands for an omitted sub-field
OvrInputs == {0, 30}

\* the service data of the run holds a protocol
HasProtocolData(rn) == kind = "service" /\ "protocol" \in DOMAIN rn.data

Performed(rn, op) ==
    /\ Exited(rn)
    /\ Len(Mutations(rn)) = 1
    /\ Mutations(rn)[1].op = op
    /\ Mutations(rn)[1].outcome = "ok"

\* the run succeeded without a mutating call and without a change
NoOpRun(rn) == Exited(rn) /\ Mutations(rn) = <<>> /\ ~rn.result.changed

\* C22 (as stated): a successful create or update returns the resulting
\* remote object in the result; a delete and a no-op return no object.
C22_ObjectOnlyOnCreateUpdate ==
    \A r \in Runs :
        LET rn == run[r]
        IN  /\ (Performed(rn, "create") \/ Performed(rn, "update")) => rn.result.has_obj
            /\ (Performed(rn, "delete") \/ NoOpRun(rn)) => ~rn.result.has_obj

\* C22 (amended): a successful create or update returns the resulting remote
\* object; a delete and a no-op under intent absent return no object; a
\* no-op under intent present returns the serialized object the probe found.
C22_ResultContents ==
    \A r \in Runs :
        LET rn == run[r]
        IN  /\ (Performed(rn, "create") \/ Performed(rn, "update")) =>
                  /\ rn.result.has_obj /\ rn.result.changed
                  /\ rn.result.obj = serialize_response(store[PayloadKey(Mutations(rn)[1].payload)])
            /\ Performed(rn, "delete") => ~rn.result.has_obj /\ rn.result.changed
            /\ (NoOpRun(rn) /\ IsAbsent(r)) => ~rn.result.has_obj
            /\ (NoOpRun(rn) /\ IsPresent(r)) =>
                  /\ ProbeFound(rn)
                  /\ rn.result.has_obj
                  /\ rn.result.obj = serialize_response(rn.existing)

C22_Witness ==
    \E r \in Runs :
        /\ NoOpRun(run[r]) /\ IsPresent(r) /\ ~run[r].check_mode
        /\ run[r].result.has_obj
        /\ Performed(prev[r], "create")


\* responses that are no model objects: None, a string, a list
NonModels == {[raw |-> None], [raw |-> Str("deleted")], [raw |-> List(<<"a", "b">>)]}

\* the model objects of the backend
StoredObjects == {store[key] : key \in {x \in ValidKeys : store[x] # NoObj}}

\* C23: serialize_response of a model object is its field dictionary with the
\* id rendered as a string and every other field as the object holds it; a
\* response that is no model object is returned unchanged.
C23_Serialization ==
    /\ \A x \in NonModels : serialize_response(x) = x
    /\ \A o \in StoredObjects :
          LET s == serialize_response(o)
          IN  /\ DOMAIN s = DOMAIN o.fields \cup {"id"}
              /\ s["id"] = Str(ToString(o.id))
              /\ \A f \in DOMAIN o.fields : s[f] = o.fields[f]
    /\ \A r \in Runs :
          run[r].result.has_obj =>
             /\ run[r].result.obj["id"][1] = "str"
             /\ \A f \in DOMAIN run[r].result.obj \ {"id", "protocol"} :
                   run[r].result.obj[f][1] # "uuid"

C23_Witness ==
    \E r \in Runs :
        /\ Performed(run[r], "create")
        /\ run[r].result.obj["id"] = Str("2")
        /\ \E o \in StoredObjects : o.id = 2 /\ serialize_response(o) = run[r].result.obj


\* the previous run made one mutating attempt, which failed
PrevAttemptFailed(r) ==
    /\ Failed(prev[r])
    /\ Len(Mutations(prev[r])) = 1
    /\ Mutations(prev[r])[1].outcome = "fault"

\* the previous run made one mutating attempt, which succeeded, or found
\* nothing to do
PrevSettled(r) ==
    /\ Exited(prev[r]) /\ ~prev[r].check_mode
    /\ \A i \in 1..Len(prev[r].calls) : prev[r].calls[i].outcome # "fault"

\* C24: the run after a failed create, update or delete attempt chooses the
\* same action again, and the run after a successful attempt (or after a run
\* that found nothing to do) makes no mutating call and reports
\* changed=false, so that re-invocation settles at changed=false.
C24_Recovery ==
    \A r \in Runs :
        LET rn == run[r]
        IN  /\ (PrevAttemptFailed(r) /\ Decided(rn) /\ ~rn.check_mode) =>
                  \/ rn.pc = Mutations(prev[r])[1].op
                  \/ /\ Len(Mutations(rn)) = 1
                     /\ Mutations(rn)[1].op = Mutations(prev[r])[1].op
            /\ (PrevSettled(r) /\ Decided(rn)) =>
                  /\ rn.pc \notin MutatingOps
                  /\ Mutations(rn) = <<>>
                  /\ Exited(rn) /\ ~rn.result.changed


\* what a run observed of the backend: the outcome of its probe and the
\* object it found
Observed(rn) == <<rn.calls[1].outcome, rn.exists, rn.existing>>

\* the outcomes of the backend calls of a run
CallOutcomes(rn) == [i \in 1..Len(rn.calls) |-> rn.calls[i].outcome]

\* what the desired spec, the dry-run flag and the observed state determine
Determined(r) ==
    Plan(kind, params[r].state, run[r].check_mode, BuildData(kind, params[r]),
         run[r].exists, run[r].existing)

\* C26: a run is a function of the desired spec, the dry-run flag and the
\* observed backend state: what it decides is what these three determine,
\* and a run that follows another run with the same flag, the same observed
\* state and the same call outcomes issues the same calls and reports the
\* same result.
C26_Memoryless ==
    \A r \in Runs :
        LET rn == run[r]
            pl == Determined(r)
        IN  /\ Decided(rn) =>
                  IF pl.next = "done"
                  THEN Done(rn) /\ rn.result = pl.result /\ Mutations(rn) = <<>>
                  ELSE \/ rn.pc = pl.next /\ rn.payload = pl.payload /\ Mutations(rn) = <<>>
                       \/ /\ Done(rn)
                          /\ Len(Mutations(rn)) = 1
                          /\ Mutations(rn)[1].op = pl.next
                          /\ pl.next # "delete" => Mutations(rn)[1].payload = pl.payload
            /\ ( /\ Done(rn) /\ Done(prev[r])
                 /\ Probed(rn) /\ Probed(prev[r])
                 /\ rn.check_mode = prev[r].check_mode
                 /\ Observed(rn) = Observed(prev[r])
                 /\ CallOutcomes(rn) = CallOutcomes(prev[r]) )
               => rn.calls = prev[r].calls /\ rn.result = prev[r].result

C26_Witness ==
    \E r \in Runs :
        /\ Done(run[r]) /\ Done(prev[r])
        /\ ProbeFound(run[r]) /\ ProbeFound(prev[r])
        /\ Observed(run[r]) = Observed(prev[r])
        /\ run[r].check_mode = prev[r].check_mode
        /\ Exited(run[r]) /\ run[r].result = prev[r].result
        /\ run[r].existing.id = 2


\* the run ended with a report: a changed flag or a failure message
Reported(rn) == Exited(rn) \/ (Failed(rn) /\ rn.result.msg # "")

\* C27: for each of the seven resource kinds, a run with a well-formed spec
\* obtains its parameter schema, reaches the probe unless the client cannot
\* be created, and ends by reporting a changed flag or a failure message.
C27_SamePipeline ==
    \A r \in Runs :
        LET rn == run[r]
        IN  (SpecValid(kind, params[r]) /\ Done(rn)) =>
               /\ Reported(rn)
               /\ Probed(rn) \/ rn.result.msg \in {"authentication", "client"}


\* the desired service data gives an override that differs, defaults filled
\* in, from the override of the remote block of the same kind and port
OverrideDiffers(d, e) ==
    /\ "protocol" \in DOMAIN d
    /\ "protocol" \in DOMAIN e.fields
    /\ LET p == d["protocol"]
           rp == e.fields["protocol"]
       IN  \/ /\ p.tcp.given /\ rp.tcp.given /\ p.tcp.port = rp.tcp.port
              /\ p.tcp.override.given
              /\ FillTcp(p.tcp.override) # FillTcp(rp.tcp.override)
           \/ /\ p.udp.given /\ rp.udp.given /\ p.udp.port = rp.udp.port
              /\ p.udp.override.given
              /\ FillUdp(p.udp.override) # FillUdp(rp.udp.override)

\* the run took the update row of the decision table
TookUpdate(rn) ==
    IF rn.check_mode
    THEN Exited(rn) /\ rn.result.changed
    ELSE \/ rn.pc = "update" /\ Mutations(rn) = <<>>
         \/ /\ Done(rn) /\ Len(Mutations(rn)) = 1 /\ Mutations(rn)[1].op = "update"
            /\ Mutations(rn)[1].outcome = "ok" => Exited(rn) /\ rn.result.changed

\* C29: for an existing service, a desired override that differs from the
\* remote override once the defaults are filled in gives a non-empty
\* ChangeSet and an update with changed=true.
C29_OverrideCompared ==
    \A r \in Runs :
        LET rn == run[r]
        IN  ( /\ kind = "service" /\ IsPresent(r) /\ ProbeFound(rn) /\ Decided(rn)
              /\ OverrideDiffers(rn.data, rn.existing) ) =>
               /\ "protocol" \in ChangeSet(kind, rn.data, rn.existing)
               /\ TookUpdate(rn)

\* the desired service data and the remote service hold different protocol kinds
KindChanges(d, e) ==
    /\ "protocol" \in DOMAIN d
    /\ "protocol" \in DOMAIN e.fields
    /\ LET p == d["protocol"]
           rp == e.fields["protocol"]
       IN  \/ p.tcp.given /\ ~rp.tcp.given /\ rp.udp.given
           \/ p.udp.given /\ ~rp.udp.given /\ rp.tcp.given

\* C30: when the remote service carries a tcp block and the desired spec a
\* udp block, or the reverse, the run does not end in failure for it: it
\* takes the update row and reports changed=true.
C30_ProtocolKindChange ==
    \A r \in Runs :
        LET rn == run[r]
        IN  ( /\ kind = "service" /\ IsPresent(r) /\ ProbeFound(rn) /\ Decided(rn)
              /\ KindChanges(rn.data, rn.existing) ) =>
               /\ "protocol" \in ChangeSet(kind, rn.data, rn.existing)
               /\ TookUpdate(rn)


\* the return code of the first command, in the listed order, that did not
\* return zero; zero when every command did
FirstNonZero(commands, codes) ==
    LET failing == {i \in 1..Len(commands) : codes[commands[i]] # 0}
    IN  IF failing = {} THEN 0
        ELSE codes[commands[CHOOSE i \in failing : \A j \in failing : i <= j]]

\* C28: lint and lint_and_test exit with the first non-zero return code among
\* their commands, in the listed order, or with zero when every command
\* succeeds.
C28_FirstNonZeroExit ==
    build.pc = "exited" => build.exit_code = FirstNonZero(build.commands, build.codes)


\* the two tasks target different identities
Independent == \A r, q \in ParRuns : r # q => OwnKey(r) # OwnKey(q)

\* the run has changed the backend
Succeeded(rn) == \E i \in 1..Len(rn.calls) :
                    rn.calls[i].op \in MutatingOps /\ rn.calls[i].outcome = "ok"

\* the call is addressed to the task's own object and to no other task's
CallOnOwn(r, c) ==
    /\ c.op = "fetch" => c.key = OwnKey(r)
    /\ c.op \in {"create", "update"} => PayloadKey(c.payload) = OwnKey(r)
    /\ c.op \in {"update", "delete"} =>
          /\ c.id \in {StrOfId(run[r].existing.id), Uuid(run[r].existing.id)}
          /\ \A q \in ParRuns \ {r} : ~IdMatches(store[OwnKey(q)], c.id)

\* what the run does and reports is what its own object, as the backend holds
\* it, makes it do: the run behaves as if it were the only one
AsAlone(r) ==
    LET rn == run[r]
        own == store[OwnKey(r)]
        pl == Plan(kind, params[r].state, rn.check_mode, BuildData(kind, params[r]),
                   own # NoObj, own)
        last == rn.calls[Len(rn.calls)]
    IN  /\ \A i \in 1..Len(rn.calls) : CallOnOwn(r, rn.calls[i])
        /\ (ProbeFound(rn) \/ ProbeNotFound(rn)) /\ ~Succeeded(rn) =>
              /\ rn.exists = (own # NoObj)
              /\ rn.existing = own
        /\ Decided(rn) /\ ~Succeeded(rn) =>
              /\ rn.payload = pl.payload
              /\ rn.need_update = pl.need_update
              /\ IF Mutations(rn) = <<>>
                 THEN rn.pc = pl.next /\ rn.result = pl.result
                 ELSE Failed(rn)
        /\ Succeeded(rn) =>
              /\ Len(Mutations(rn)) = 1
              /\ CASE last.op = "create" ->
                        /\ own # NoObj
                        /\ own.fields = StoredFields(kind, BuildData(kind, params[r]))
                        /\ rn.result = ExitJsonObj(TRUE, serialize_response(own))
                   [] last.op = "update" ->
                        /\ own = Obj(rn.existing.id, StoredFields(kind, rn.payload))
                        /\ rn.result = ExitJsonObj(TRUE, serialize_response(own))
                   [] OTHER ->
                        /\ own = NoObj
                        /\ rn.result = ExitJson(TRUE)

\* an object changes only in a step of the task that names it
WritesOwnOnly ==
    \A key \in ValidKeys :
        store'[key] # store[key] => \E r \in ParRuns : key = OwnKey(r) /\ run'[r] # run[r]

\* C25: two runs that target different identities, interleaved in any way, do
\* not interfere: every call of a run is addressed to its own object, what it
\* read, decided, reported and left behind is what its own object alone makes
\* it do, and no step of a run changes an object other than its own.
C25_Independence ==
    [][Independent => WritesOwnOnly /\ (\A r \in ParRuns : AsAlone(r))']_vars

\* one task has probed and is about to change its object while the other task
\* has changed its own in between
C25_Witness ==
    \E r, q \in ParRuns :
        /\ OwnKey(r) # OwnKey(q)
        /\ run[r].pc \in {"create", "update", "delete"}
        /\ Done(run[q]) /\ Succeeded(run[q])


\* the fetch calls of a run
Fetches(rn) == SelectSeq(rn.calls, LAMBDA c : c.op = "fetch")

\* the run ended at construction or at client creation
EndedBeforeProbe(rn) ==
    Done(rn) /\ rn.result.msg \in {"AttributeError", "missing_args", "authentication", "client"}

\* the run has got to its probe and made it
PastProbe(rn) == rn.pc \in {"decide", "create", "update", "delete"} \/
                 (Done(rn) /\ ~EndedBeforeProbe(rn))

\* every finished run has issued exactly one fetch
C31_OneProbeEveryRun ==
    \A r \in ParRuns : Done(run[r]) => Len(Fetches(run[r])) = 1

\* C31: a run that gets to its probe issues exactly one fetch, as its first
\* backend call, and a run that ends before the probe issues none; a run
\* starts with nothing kept from an earlier run; and with two runs on the same
\* identity, the call a run goes on to make, its payload and its result are
\* what the desired spec, the dry-run flag and the run's own probe result
\* give, whatever the other run has done to the object since that probe.
C31_FreshProbe ==
    \A r \in ParRuns :
        LET rn == run[r]
            pl == Plan(kind, params[r].state, rn.check_mode, BuildData(kind, params[r]),
                       rn.exists, rn.existing)
        IN  /\ Len(Fetches(rn)) <= 1
            /\ rn.calls # <<>> => rn.calls[1].op = "fetch"
            /\ PastProbe(rn) <=> Len(Fetches(rn)) = 1
            /\ rn.pc = "idle" => rn = IdleRun
            /\ ProbeFound(rn) => rn.exists /\ rn.existing # NoObj
            /\ ProbeNotFound(rn) => ~rn.exists /\ rn.existing = NoObj
            /\ Decided(rn) =>
                  IF pl.next = "done"
                  THEN Done(rn) /\ rn.result = pl.result /\ Len(rn.calls) = 1
                  ELSE \/ rn.pc = pl.next /\ rn.payload = pl.payload /\ Len(rn.calls) = 1
                       \/ /\ Done(rn) /\ Len(rn.calls) = 2
                          /\ rn.calls[2].op = pl.next
                          /\ pl.next # "delete" => rn.calls[2].payload = pl.payload
                          /\ IF rn.calls[2].outcome = "ok"
                             THEN Exited(rn) /\ rn.result.changed
                             ELSE Failed(rn)

\* both runs probed the same object and each went on to update it: the
\* update of one fell between the probe and the update of the other
C31_Witness ==
    \E r, q \in ParRuns :
        /\ r # q
        /\ ProbeFound(run[r]) /\ ProbeFound(run[q])
        /\ run[r].existing = run[q].existing
        /\ \A x \in {r, q} :
              /\ Exited(run[x]) /\ run[x].result.changed
              /\ Len(run[x].calls) = 2
              /\ run[x].calls[2].op = "update"
              /\ run[x].calls[2].outcome = "ok"


\* C32: a run emits no result while it is under way, and a finished run has
\* emitted exactly one: a success result with its changed flag, or a failure
\* result with a message.
C32_OneResult ==
    \A r \in Runs :
        LET rn == run[r]
        IN  /\ ~Done(rn) => rn.result = NoResult
            /\ Done(rn) =>
                  \/ rn.result.status = "exit" /\ rn.result.msg = ""
                  \/ rn.result.status = "fail" /\ rn.result.msg # "" /\ ~rn.result.changed


\* the run issued exactly one mutating call and the call returned
OneMutationDone(rn) ==
    Len(Mutations(rn)) = 1 /\ Mutations(rn)[1].outcome = "ok"

\* C33: a finished run that is no dry-run reports changed=true iff it issued
\* exactly one create, update or delete call and the call returned; a run
\* that reports changed=false, or that failed without a mutating call having
\* raised, has issued no mutating call.
C33_ChangedMatchesCalls ==
    \A r \in Runs :
        LET rn == run[r]
        IN  (Done(rn) /\ ~rn.check_mode) =>
               /\ (Exited(rn) /\ rn.result.changed) <=> OneMutationDone(rn)
               /\ (Exited(rn) /\ ~rn.result.changed) => Mutations(rn) = <<>>
               /\ Failed(rn) =>
                     \/ Mutations(rn) = <<>>
                     \/ /\ Len(Mutations(rn)) = 1
                        /\ Mutations(rn)[1].outcome = "fault"
                        /\ rn.calls[Len(rn.calls)].op \in MutatingOps

\* a run that changed the backend has ended, and after it a run that found
\* nothing to do
C33_Witness ==
    \E r \in Runs :
        /\ Exited(prev[r]) /\ ~prev[r].check_mode /\ prev[r].result.changed
        /\ OneMutationDone(prev[r])
        /\ Exited(run[r]) /\ ~run[r].check_mode /\ ~run[r].result.changed
        /\ Probed(run[r]) /\ Mutations(run[r]) = <<>>


\* the update and delete calls of a run
Retargeting(rn) == {i \in 1..Len(rn.calls) : rn.calls[i].op \in {"update", "delete"}}

\* the call names the object the run's probe returned, and an update names
\* the name and container of the desired spec
TargetsProbed(rn, c) ==
    /\ ProbeFound(rn)
    /\ IdMatches(rn.existing, c.id)
    /\ c.op = "update" =>
          /\ c.payload["id"] = c.id
          /\ \A f \in IdentityFields : Get(c.payload, f) = Get(rn.data, f)

\* every update and delete call carries the probed id rendered as a string
C34_IdAsString ==
    \A r \in Runs : \A i \in Retargeting(run[r]) :
        /\ TargetsProbed(run[r], run[r].calls[i])
        /\ run[r].calls[i].id = StrOfId(run[r].existing.id)

\* C34: every update and delete call of a run names the object that the
\* run's own probe returned, and an update carries the name and container of
\* the desired spec the probe was made with; the id is rendered as a string,
\* except in a service update, whose data is the dump of the probed object
\* and carries the identifier as the dump gives it.
C34_MutationsTargetProbed ==
    \A r \in Runs : \A i \in Retargeting(run[r]) :
        LET rn == run[r]
            c == rn.calls[i]
        IN  /\ TargetsProbed(rn, c)
            /\ c.id = IF kind \in {"service", "address"} /\ c.op = "update"
                      THEN Uuid(rn.existing.id)
                      ELSE StrOfId(rn.existing.id)

\* a service update that the backend accepted
C34_Witness ==
    \E r \in Runs :
        /\ kind = "service"
        /\ Exited(run[r])
        /\ \E i \in Retargeting(run[r]) :
              run[r].calls[i].op = "update" /\ run[r].calls[i].outcome = "ok"


\* the update calls of a run
UpdateCalls(rn) == {i \in 1..Len(rn.calls) : rn.calls[i].op = "update"}

\* the desired port of the protocol kind the comparison looks at, or the
\* remote port when the desired data names none
PortSent(d, rp, knd) ==
    IF "protocol" \notin DOMAIN d THEN rp[knd].port
    ELSE IF knd = "tcp" /\ d["protocol"].tcp.given THEN d["protocol"].tcp.port
    ELSE IF knd = "udp" /\ ~d["protocol"].tcp.given /\ d["protocol"].udp.given
         THEN d["protocol"].udp.port
    ELSE rp[knd].port

\* the payload is the remote object's set fields, with the port of the
\* compared protocol block and the description and tag that the desired data
\* gives with another value replaced, and nothing else touched
ServiceFrame(p, d, e) ==
    LET dump == ModelDump(e)
        replaced == {f \in {"description", "tag"} : f \in DOMAIN d /\ d[f] # Attr(e, f)}
    IN  /\ DOMAIN p = DOMAIN dump \cup replaced
        /\ \A f \in DOMAIN p \ {"protocol"} :
              p[f] = IF f \in replaced THEN d[f] ELSE dump[f]
        /\ \A knd \in {"tcp", "udp"} :
              /\ p["protocol"][knd].given = dump["protocol"][knd].given
              /\ p["protocol"][knd].override = dump["protocol"][knd].override
              /\ p["protocol"][knd].port = PortSent(d, dump["protocol"], knd)

\* C35: the payload of every service update is the probed object's set
\* fields with exactly the differing compared fields (the port of the
\* compared protocol block, description, tag) replaced by the desired values;
\* every other remote field, the stored override included, goes back as it
\* was.
C35_ServiceUpdateFrame ==
    \A r \in Runs :
        LET rn == run[r]
        IN  kind = "service" =>
               /\ rn.pc = "update" => ServiceFrame(rn.payload, rn.data, rn.existing)
               /\ \A i \in UpdateCalls(rn) :
                     ServiceFrame(rn.calls[i].payload, rn.data, rn.existing)

\* a service update went out for an object that holds an override and a
\* description the desired data does not name
C35_Witness ==
    \E r \in Runs :
        /\ kind = "service"
        /\ \E i \in UpdateCalls(run[r]) : run[r].calls[i].outcome = "ok"
        /\ "description" \notin DOMAIN run[r].data
        /\ "description" \in DOMAIN run[r].existing.fields
        /\ run[r].existing.fields["protocol"].tcp.override.given


\* the run has built its data
Built(rn) == rn.data # EmptyFn

\* the block was given with a non-empty port
HasPort(b) == b.given /\ Truthy(b.port)

\* when both blocks are given, the data that has a protocol has the tcp block
C36_TcpKeptWhenBoth ==
    \A r \in Runs :
        LET pr == params[r].protocol
            d == run[r].data
        IN  (kind = "service" /\ Built(run[r]) /\ pr.given /\ pr.tcp.given /\ pr.udp.given
             /\ "protocol" \in DOMAIN d)
            => d["protocol"].tcp.given

\* C36: the service data has the protocol key exactly when one of the two
\* blocks was given with a non-empty port, and then it holds exactly one of
\* tcp and udp, with the port that was given; when both blocks have a port
\* the tcp block is the one kept, and the udp block is kept only when the
\* tcp block has none.
C36_OneProtocolKind ==
    \A r \in Runs :
        LET pr == params[r].protocol
            d == run[r].data
        IN  (kind = "service" /\ Built(run[r])) =>
               /\ "protocol" \in DOMAIN d <=>
                     pr.given /\ (HasPort(pr.tcp) \/ HasPort(pr.udp))
               /\ "protocol" \in DOMAIN d =>
                     /\ d["protocol"].tcp.given # d["protocol"].udp.given
                     /\ d["protocol"].tcp.given <=> HasPort(pr.tcp)
                     /\ d["protocol"].tcp.given => d["protocol"].tcp.port = pr.tcp.port
                     /\ d["protocol"].udp.given => d["protocol"].udp.port = pr.udp.port

\* both blocks were given with a port and the data holds the tcp block only
C36_Witness ==
    \E r \in Runs :
        /\ kind = "service" /\ Built(run[r])
        /\ HasPort(params[r].protocol.tcp) /\ HasPort(params[r].protocol.udp)
        /\ run[r].data["protocol"].tcp.given
        /\ ~run[r].data["protocol"].udp.given


\* the commands of the run
Submitted == {build.commands[i] : i \in 1..Len(build.commands)}

\* C37: the threaded runner keeps every command it was given under way until
\* it has returned, in whatever order they return and whatever they return;
\* it exits only when every command has returned, and its exit status is
\* non-zero iff at least one command returned a non-zero code.
C37_ThreadedRun ==
    /\ build.pc # "idle" =>
          /\ DOMAIN build.return_codes \subseteq Submitted
          /\ \A c \in DOMAIN build.return_codes : build.return_codes[c] = build.codes[c]
    /\ build.pc = "exited" =>
          /\ DOMAIN build.return_codes = Submitted
          /\ build.exit_code # 0 <=> \E c \in Submitted : build.codes[c] # 0
    /\ build.pc # "exited" => build.exit_code = 0

\* the first command of the list returned non-zero, every other command ran
\* to its end all the same and returned zero, and the script has exited
C37_Witness ==
    /\ build.pc = "exited"
    /\ build.exit_code = 1
    /\ DOMAIN build.return_codes = Submitted
    /\ build.return_codes[build.commands[1]] = 2
    /\ \A i \in 2..Len(build.commands) : build.return_codes[build.commands[i]] = 0

====
